---- MODULE Spec2Model ----
(***************************************************************************)
(* bento_log_service/app.py: the two log catalogs built when the module   *)
(* is imported, the three request helpers (_logs_endpoint,                *)
(* _logs_service_endpoint, _log_bytes_endpoint) behind the seven routes,  *)
(* and the tail-reading loop of _log_bytes_endpoint, one step per         *)
(* statement of the loop.                                                 *)
(*                                                                         *)
(* Strings that the code builds (paths, URLs, messages, file text) are    *)
(* sequences of tokens; string concatenation is \o.  Python dicts are     *)
(* functions, lists are sequences.  The LogSource dicts are heap objects: *)
(* the lists and the *_DICT mappings hold references (ids) to them, as    *)
(* in Python.                                                             *)
(***************************************************************************)
EXTENDS Integers, Sequences, FiniteSets, TLC

VARIABLES
    chord_services_json, \* json.load(f) of CHORD_SERVICES_PATH (line 48-49)
    CHORD_SERVICES,      \* line 49
    heap,                \* object id -> LogSource dict
    SYSTEM_LOGS,         \* line 69: sequence of object ids
    SYSTEM_LOGS_DICT,    \* line 85: service -> object id
    SERVICE_LOGS,        \* line 96
    SERVICE_LOGS_DICT,   \* line 108
    LINES_LIMIT,         \* line 53 (1000 in the source; drawn small here)
    fileText,            \* the raw text a regular log file holds when opened
    startup,             \* history: the catalogs as built at import
    request,             \* the request whose handler returned last
    response,            \* what that handler returned
    opened,              \* open() calls of the fetch in flight / returned last
    fpc,                 \* position of the _log_bytes_endpoint call in flight
    frequest,            \* its request
    file_path,           \* its local file_path
    lf,                  \* its file object: the raw text not yet read
    lines                \* its local lines

catalogs == <<chord_services_json, CHORD_SERVICES, heap, SYSTEM_LOGS,
              SYSTEM_LOGS_DICT, SERVICE_LOGS, SERVICE_LOGS_DICT>>
config == <<LINES_LIMIT, fileText, startup>>
frame == <<fpc, frequest, file_path, lf, lines>>
vars == <<catalogs, config, request, response, opened, frame>>

----------------------------------------------------------------------------
(* Bounds of the model *)

MaxServices == 2      \* descriptors in chord_services.json
MaxFileLen == 5       \* characters in a log file (tail specification)
MaxLinesLimit == 3    \* LINES_LIMIT is drawn from 1..MaxLinesLimit
SampleLinesLimit == 1 \* LINES_LIMIT of the request specification

LF == "\\n"
CR == "\\r"
Chars == {"a", LF, CR}

Artifacts == {"", "web", "db"}
FileNames == {"out.log"}
ServiceArgs == Artifacts \cup {"nginx", "redis", "unknown-service"}
LogArgs == FileNames \cup {"access.log", "redis.log", ""}

Texts(n) == UNION {[1..k -> Chars] : k \in 0..n}
SampleText == <<"a", CR, LF, "a", LF, "a">>

Descriptors == [type : [artifact : Artifacts], disabled : BOOLEAN]
DescriptorLists == UNION {[1..k -> Descriptors] : k \in 0..MaxServices}

Min(a, b) == IF a <= b THEN a ELSE b

----------------------------------------------------------------------------
(* Module constants *)

SERVICE_NAME == <<"Bento Log Service">>
SERVICE_INFO == [name |-> SERVICE_NAME, type |-> <<"ca.c3g.bento:", "log-service">>]

\* CHORD_URL and SERVICE_URL_BASE_PATH at their defaults: urljoin(CHORD_URL, "/")
SERVICE_URL == <<"http://127.0.0.1:5000/">>

SERVICE_LOGS_TEMPLATE(service_artifact) ==
    <<"/", "chord", "/", "tmp", "/", "logs", "/", service_artifact, "/">>

SystemObjects ==
    <<[service |-> "nginx",
       logs |-> ("access.log" :> <<"/", "chord", "/", "tmp", "/", "nginx", "/", "access.log">>)
             @@ ("error.log" :> <<"/", "chord", "/", "tmp", "/", "nginx", "/", "error.log">>)],
      [service |-> "redis",
       logs |-> ("redis.log" :> <<"/", "chord", "/", "tmp", "/", "redis", "/">>)]>>

----------------------------------------------------------------------------
(* Catalog construction (module import) *)

\* What os.walk(directory) may find: no directory, or its regular files.
WalkResults == {[exists |-> FALSE, files |-> {}]}
               \cup {[exists |-> TRUE, files |-> S] : S \in SUBSET FileNames}

\* next(os.walk(directory), ((), (), ()))[2]
_get_service_dir_and_files(service_artifact, walk) ==
    [directory |-> SERVICE_LOGS_TEMPLATE(service_artifact),
     files |-> IF walk.exists THEN walk.files ELSE {}]

\* os.path.join(d, fn) for a d that ends in "/" and a basename fn
path_join(d, fn) == d \o <<fn>>

\* Faulty variant: the filter left out
SkipNone(services) == services
\* [s for s in json.load(f) if not s.get("disabled")]
SkipDisabled(services) == SelectSeq(services, LAMBDA s : ~s.disabled)

\* One element of the SERVICE_LOGS comprehension
ServiceLogSource(s, walk) ==
    LET df == _get_service_dir_and_files(s.type.artifact, walk)
    IN  [service |-> s.type.artifact,
         logs |-> [fn \in df.files |-> path_join(df.directory, fn)]]

\* Faulty variant: the first entry of a service id is kept
DictFirstWins(log_list, h) ==
    [k \in {h[log_list[i]].service : i \in DOMAIN log_list} |->
        log_list[CHOOSE i \in DOMAIN log_list :
            /\ h[log_list[i]].service = k
            /\ \A j \in DOMAIN log_list : h[log_list[j]].service = k => j >= i]]
\* {s["service"]: s for s in log_list}: a later entry replaces an earlier one
DictByService(log_list, h) ==
    [k \in {h[log_list[i]].service : i \in DOMAIN log_list} |->
        log_list[CHOOSE i \in DOMAIN log_list :
            /\ h[log_list[i]].service = k
            /\ \A j \in DOMAIN log_list : h[log_list[j]].service = k => j <= i]]

NoRequest == [route |-> "", service |-> "", log |-> ""]
NoResponse == [status |-> 0, mimetype |-> "", by |-> "", body |-> <<>>]

InitWith(jsons, limits, texts) ==
    /\ chord_services_json \in jsons
    /\ CHORD_SERVICES = SkipDisabled(chord_services_json)
    /\ \E walks \in [DOMAIN CHORD_SERVICES -> WalkResults] :
        /\ SERVICE_LOGS = [i \in DOMAIN CHORD_SERVICES |-> Len(SystemObjects) + i]
        /\ heap = SystemObjects
                  \o [i \in DOMAIN CHORD_SERVICES |->
                        ServiceLogSource(CHORD_SERVICES[i], walks[i])]
    /\ SYSTEM_LOGS = [i \in DOMAIN SystemObjects |-> i]
    /\ SYSTEM_LOGS_DICT = DictByService(SYSTEM_LOGS, heap)
    /\ SERVICE_LOGS_DICT = DictByService(SERVICE_LOGS, heap)
    /\ LINES_LIMIT \in limits
    /\ fileText \in texts
    /\ startup = [heap |-> heap, SYSTEM_LOGS |-> SYSTEM_LOGS,
                  SYSTEM_LOGS_DICT |-> SYSTEM_LOGS_DICT,
                  SERVICE_LOGS |-> SERVICE_LOGS,
                  SERVICE_LOGS_DICT |-> SERVICE_LOGS_DICT]
    /\ request = NoRequest
    /\ response = NoResponse
    /\ opened = <<>>
    /\ fpc = "idle"
    /\ frequest = NoRequest
    /\ file_path = <<>>
    /\ lf = <<>>
    /\ lines = <<>>

Init == InitWith(DescriptorLists, {SampleLinesLimit}, {SampleText})

----------------------------------------------------------------------------
(* Responses *)

\* application.response_class(body, status=..., mimetype=...), returned by a view
response_class(body, status, mimetype) ==
    [status |-> status, mimetype |-> mimetype, by |-> "view", body |-> body]

\* jsonify(value), and a dict returned by a view
jsonify(value) ==
    [status |-> 200, mimetype |-> "application/json", by |-> "view", body |-> value]

\* bento_lib's flask_not_found_error(message)
flask_not_found_error(message) ==
    [status |-> 404, mimetype |-> "application/json", by |-> "view",
     body |-> [code |-> 404, message |-> message]]

\* The handlers registered for Exception, BadRequest and NotFound: Flask
\* picks the handler of the most specific class the exception is an
\* instance of.
error_handler(exc) ==
    [status |-> IF exc = "NotFound" THEN 404
                ELSE IF exc = "BadRequest" THEN 400
                ELSE 500,
     mimetype |-> "application/json", by |-> "errorhandler",
     body |-> [code |-> IF exc = "NotFound" THEN 404
                        ELSE IF exc = "BadRequest" THEN 400
                        ELSE 500,
               message |-> <<>>]]

\* What the client gets from a view that returned a value or raised
flask_dispatch(outcome) ==
    IF outcome.kind = "raise" THEN error_handler(outcome.value) ELSE outcome.value

----------------------------------------------------------------------------
(* Endpoint views *)

\* urljoin(base, relative) for a base that ends in "/" and a relative path
\* with no scheme, no leading "/" and no dot segments
urljoin(base, relative) == base \o relative

\* Faulty variant: s["logs"] assigned in place
ToEndpointValueInPlace(h, id, log_base_path) ==
    LET s == h[id]
        view == [service |-> s.service,
                 logs |-> [log \in DOMAIN s.logs |->
                     urljoin(SERVICE_URL, <<log_base_path, "/", s.service, "/", log>>)]]
    IN  [ret |-> view, heap |-> [h EXCEPT ![id] = view]]
\* {**s, "logs": {...}}: returns the view and the heap as the call leaves it
_log_to_endpoint_value(h, id, log_base_path) ==
    LET s == h[id]
        view == [service |-> s.service,
                 logs |-> [log \in DOMAIN s.logs |->
                     urljoin(SERVICE_URL, <<log_base_path, "/", s.service, "/", log>>)]]
    IN  [ret |-> view, heap |-> h]

\* [_log_to_endpoint_value(s, log_base_path) for s in log_list]
RECURSIVE EndpointValues(_, _, _)
EndpointValues(h, log_list, log_base_path) ==
    IF log_list = <<>> THEN [ret |-> <<>>, heap |-> h]
    ELSE LET first == _log_to_endpoint_value(h, Head(log_list), log_base_path)
             rest == EndpointValues(first.heap, Tail(log_list), log_base_path)
         IN  [ret |-> <<first.ret>> \o rest.ret, heap |-> rest.heap]

\* Bookkeeping of a handler that returns in one step
Returned(route, service, log, resp) ==
    /\ request' = [route |-> route, service |-> service, log |-> log]
    /\ response' = resp
    /\ opened' = IF fpc = "idle" THEN <<>> ELSE opened

_logs_endpoint(route, log_list, log_base_path) ==
    LET r == EndpointValues(heap, log_list, log_base_path)
    IN  /\ heap' = r.heap
        /\ Returned(route, "", "", jsonify(r.ret))
        /\ UNCHANGED <<chord_services_json, CHORD_SERVICES, SYSTEM_LOGS,
                       SYSTEM_LOGS_DICT, SERVICE_LOGS, SERVICE_LOGS_DICT,
                       config, frame>>

\* Faulty variant: "not service" left out
ServiceEndpointNoEmptyCheck(h, log_dict, service, log_base_path) ==
    IF service \notin DOMAIN log_dict
    THEN [ret |-> flask_not_found_error(<<"Could not find service '", service, "'">>),
          heap |-> h]
    ELSE LET r == _log_to_endpoint_value(h, log_dict[service], log_base_path)
         IN  [ret |-> jsonify(r.ret), heap |-> r.heap]
\* Lines 127-130: what the call returns, and the heap as it leaves it
ServiceEndpointResult(h, log_dict, service, log_base_path) ==
    IF service = "" \/ service \notin DOMAIN log_dict
    THEN [ret |-> flask_not_found_error(<<"Could not find service '", service, "'">>),
          heap |-> h]
    ELSE LET r == _log_to_endpoint_value(h, log_dict[service], log_base_path)
         IN  [ret |-> jsonify(r.ret), heap |-> r.heap]

_logs_service_endpoint(route, log_dict, service, log_base_path) ==
    LET r == ServiceEndpointResult(heap, log_dict, service, log_base_path)
    IN  /\ heap' = r.heap
        /\ Returned(route, service, "", r.ret)
        /\ UNCHANGED <<chord_services_json, CHORD_SERVICES, SYSTEM_LOGS,
                       SYSTEM_LOGS_DICT, SERVICE_LOGS, SERVICE_LOGS_DICT,
                       config, frame>>

----------------------------------------------------------------------------
(* Text-mode reading: open(file_path, "r") and iteration over the file *)

\* Outcomes of open(file_path, "r"): a path that ends in "/" never opens
\* as a regular file.
OpenResults(path) ==
    IF path[Len(path)] = "/"
    THEN {"FileNotFoundError", "IsADirectoryError", "NotADirectoryError"}
    ELSE {"ok", "FileNotFoundError", "IsADirectoryError", "PermissionError"}

\* Index of the first line terminator of raw, 0 when it has none
FirstEOL(raw) ==
    IF \E i \in DOMAIN raw : raw[i] \in {CR, LF}
    THEN CHOOSE i \in DOMAIN raw :
            /\ raw[i] \in {CR, LF}
            /\ \A j \in 1..(i - 1) : raw[j] \notin {CR, LF}
    ELSE 0

\* next(lf) on a file opened with newline=None (universal newlines): the
\* line ends at "\n", "\r" or "\r\n", each returned as "\n"; the last line
\* may have no terminator.
readline(raw) ==
    LET i == FirstEOL(raw)
    IN  IF i = 0 THEN [line |-> raw, rest |-> <<>>]
        ELSE LET n == IF raw[i] = CR /\ i < Len(raw) /\ raw[i + 1] = LF
                      THEN i + 1 ELSE i
             IN  [line |-> Append(SubSeq(raw, 1, i - 1), LF),
                  rest |-> SubSeq(raw, n + 1, Len(raw))]

\* "".join(lines)
RECURSIVE join(_)
join(ls) == IF ls = <<>> THEN <<>> ELSE Head(ls) \o join(Tail(ls))

\* Faulty variants: no trim; the newest line dropped
TrimNever(ls, limit) == ls
TrimLast(ls, limit) == IF Len(ls) > limit THEN SubSeq(ls, 1, Len(ls) - 1) ELSE ls
\* if len(lines) > LINES_LIMIT: lines = lines[1:]
trim(ls, limit) == IF Len(ls) > limit THEN Tail(ls) ELSE ls

----------------------------------------------------------------------------
(* _log_bytes_endpoint *)

\* Faulty variant: "service not in log_dict" left out, so log_dict[service]
\* raises KeyError for an unknown service
LookupNoServiceCheck(h, log_dict, service, log) ==
    IF service = "" THEN [kind |-> "return", value |-> response_class(<<>>, 404, "text/html")]
    ELSE IF service \notin DOMAIN log_dict THEN [kind |-> "raise", value |-> "KeyError"]
    ELSE IF log = "" \/ log \notin DOMAIN h[log_dict[service]].logs
    THEN [kind |-> "return", value |-> response_class(<<>>, 404, "text/html")]
    ELSE [kind |-> "path", value |-> h[log_dict[service]].logs[log]]
\* Lines 134-137: the guard, then file_path
LogBytesLookup(h, log_dict, service, log) ==
    IF \/ service = ""
       \/ service \notin DOMAIN log_dict
       \/ log = ""
       \/ log \notin DOMAIN h[log_dict[service]].logs
    THEN [kind |-> "return", value |-> response_class(<<>>, 404, "text/html")]
    ELSE [kind |-> "path", value |-> h[log_dict[service]].logs[log]]

\* Faulty variants: status 404 in the except clause; except OSError
ExceptNotFound404(exc) ==
    IF exc = "FileNotFoundError"
    THEN [kind |-> "return", value |-> response_class(<<>>, 404, "text/html")]
    ELSE [kind |-> "raise", value |-> exc]
ExceptOSError(exc) ==
    [kind |-> "return", value |-> response_class(<<>>, 500, "text/html")]
\* Lines 150-152: the except clause, for an exception raised in the try block
LogBytesExcept(exc) ==
    IF exc = "FileNotFoundError"
    THEN [kind |-> "return", value |-> response_class(<<>>, 500, "text/html")]
    ELSE [kind |-> "raise", value |-> exc]

FrameReturns ==
    /\ fpc' = "idle"
    /\ frequest' = NoRequest
    /\ file_path' = <<>>
    /\ lf' = <<>>
    /\ lines' = <<>>

\* The call, up to "lines = []"
_log_bytes_endpoint(route, log_dict, service, log) ==
    /\ fpc = "idle"
    /\ opened' = <<>>
    /\ LET r == LogBytesLookup(heap, log_dict, service, log)
           req == [route |-> route, service |-> service, log |-> log]
       IN  IF r.kind = "path"
           THEN /\ fpc' = "open"
                /\ frequest' = req
                /\ file_path' = r.value
                /\ lines' = <<>>
                /\ lf' = <<>>
                /\ request' = NoRequest
                /\ response' = NoResponse
           ELSE /\ request' = req
                /\ response' = flask_dispatch(r)
                /\ FrameReturns
    /\ UNCHANGED <<catalogs, config>>

\* with open(file_path, "r") as lf
LogBytesOpen ==
    /\ fpc = "open"
    /\ \E result \in OpenResults(file_path) :
        /\ opened' = <<[path |-> file_path, result |-> result]>>
        /\ IF result = "ok"
           THEN /\ fpc' = "iter"
                /\ lf' = fileText
                /\ UNCHANGED <<frequest, file_path, lines, request, response>>
           ELSE /\ request' = frequest
                /\ response' = flask_dispatch(LogBytesExcept(result))
                /\ FrameReturns
    /\ UNCHANGED <<catalogs, config>>

\* for line in lf: lines.append(line)
LogBytesAppend ==
    /\ fpc = "iter"
    /\ lf # <<>>
    /\ LET r == readline(lf)
       IN  /\ lines' = Append(lines, r.line)
           /\ lf' = r.rest
    /\ fpc' = "appended"
    /\ UNCHANGED <<catalogs, config, request, response, opened, frequest, file_path>>

\* if len(lines) > LINES_LIMIT: lines = lines[1:]
LogBytesTrim ==
    /\ fpc = "appended"
    /\ lines' = trim(lines, LINES_LIMIT)
    /\ fpc' = "iter"
    /\ UNCHANGED <<catalogs, config, request, response, opened, frequest, file_path, lf>>

\* End of file: return application.response_class("".join(lines), ...)
LogBytesReturn ==
    /\ fpc = "iter"
    /\ lf = <<>>
    /\ request' = frequest
    /\ response' = response_class(join(lines), 200, "text/plain")
    /\ FrameReturns
    /\ UNCHANGED <<catalogs, config, opened>>

----------------------------------------------------------------------------
(* Routes *)

system_logs == _logs_endpoint("system_logs", SYSTEM_LOGS, "system-logs")

system_service ==
    \E service \in ServiceArgs :
        _logs_service_endpoint("system_service", SYSTEM_LOGS_DICT, service, "system-logs")

system_service_log ==
    \E service \in ServiceArgs, log \in LogArgs :
        _log_bytes_endpoint("system_service_log", SYSTEM_LOGS_DICT, service, log)

bento_logs == _logs_endpoint("bento_logs", SERVICE_LOGS, "service-logs")

bento_service ==
    \E service \in ServiceArgs :
        _logs_service_endpoint("bento_service", SERVICE_LOGS_DICT, service, "service-logs")

bento_service_log ==
    \E service \in ServiceArgs, log \in LogArgs :
        _log_bytes_endpoint("bento_service_log", SERVICE_LOGS_DICT, service, log)

service_info ==
    /\ Returned("service_info", "", "", jsonify(SERVICE_INFO))
    /\ UNCHANGED <<catalogs, config, frame>>

Next ==
    \/ system_logs
    \/ system_service
    \/ system_service_log
    \/ bento_logs
    \/ bento_service
    \/ bento_service_log
    \/ service_info
    \/ LogBytesOpen
    \/ LogBytesAppend
    \/ LogBytesTrim
    \/ LogBytesReturn

Spec == Init /\ [][Next]_vars

\* The tail read alone: every file text and every limit within the bounds,
\* no registered service, requests for system logs only.
InitTail == InitWith({<<>>}, 1..MaxLinesLimit, Texts(MaxFileLen))

NextTail ==
    \/ system_service_log
    \/ LogBytesOpen
    \/ LogBytesAppend
    \/ LogBytesTrim
    \/ LogBytesReturn

SpecTail == InitTail /\ [][NextTail]_vars

----------------------------------------------------------------------------
(* Vocabulary of the properties *)

IsFetch(req) == req.route \in {"system_service_log", "bento_service_log"}
IsDescribe(req) == req.route \in {"system_service", "bento_service"}
IsList(req) == req.route \in {"system_logs", "bento_logs"}
IsSystem(req) == req.route \in {"system_logs", "system_service", "system_service_log"}

DictOf(req) == IF IsSystem(req) THEN SYSTEM_LOGS_DICT ELSE SERVICE_LOGS_DICT
ListOf(req) == IF IsSystem(req) THEN SYSTEM_LOGS ELSE SERVICE_LOGS
BasePathOf(req) == IF IsSystem(req) THEN "system-logs" ELSE "service-logs"

Services(log_list) == [i \in DOMAIN log_list |-> heap[log_list[i]].service]
Unique(seq) == \A i, j \in DOMAIN seq : i # j => seq[i] # seq[j]
Range(seq) == {seq[i] : i \in DOMAIN seq}
LastN(seq, n) == SubSeq(seq, Len(seq) - Min(Len(seq), n) + 1, Len(seq))

\* The lines of a text, each with its terminator: a line ends at "\n", the
\* last one at the end of the text.
RECURSIVE SplitLines(_)
SplitLines(text) ==
    IF text = <<>> THEN <<>>
    ELSE IF \E i \in DOMAIN text : text[i] = LF
    THEN LET i == CHOOSE i \in DOMAIN text :
                    text[i] = LF /\ \A j \in 1..(i - 1) : text[j] # LF
         IN  <<SubSeq(text, 1, i)>> \o SplitLines(SubSeq(text, i + 1, Len(text)))
    ELSE <<text>>

\* Universal-newline translation of a whole text: "\r\n" and "\r" become "\n".
RECURSIVE Translate(_)
Translate(raw) ==
    IF raw = <<>> THEN <<>>
    ELSE IF raw[1] = CR /\ Len(raw) > 1 /\ raw[2] = LF
    THEN <<LF>> \o Translate(SubSeq(raw, 3, Len(raw)))
    ELSE IF raw[1] = CR THEN <<LF>> \o Translate(Tail(raw))
    ELSE <<raw[1]>> \o Translate(Tail(raw))

TextLines(raw) == SplitLines(Translate(raw))

\* The part of the file the read in flight has consumed
Consumed == SubSeq(fileText, 1, Len(fileText) - Len(lf))

\* The lookup rule of the catalog: absent or empty service, absent or empty log
Miss(log_dict, service, log) ==
    \/ service = ""
    \/ service \notin DOMAIN log_dict
    \/ log = ""
    \/ log \notin DOMAIN heap[log_dict[service]].logs

EnabledArtifacts ==
    LET enabled == SelectSeq(chord_services_json, LAMBDA d : d.disabled = FALSE)
    IN  [i \in DOMAIN enabled |-> enabled[i].type.artifact]
DisabledArtifacts ==
    {chord_services_json[i].type.artifact :
        i \in {j \in DOMAIN chord_services_json : chord_services_json[j].disabled}}

OtherOSErrors == {"IsADirectoryError", "NotADirectoryError", "PermissionError"}

\* A response with no body, returned by the view itself
IsBare(resp, status) ==
    /\ resp.status = status
    /\ resp.by = "view"
    /\ resp.mimetype = "text/html"
    /\ resp.body = <<>>

----------------------------------------------------------------------------
(* C1: tail read *)

TailReturned == IsFetch(request) /\ response.status = 200

\* C1 as stated: a successful tail read returns the last min(N, LINES_LIMIT)
\* lines of the file, in order and unchanged (byte-identical to the file).
C1_TailUnchanged ==
    TailReturned =>
        response.body = join(LastN(SplitLines(fileText), LINES_LIMIT))

\* C1 amended: a successful tail read returns the last min(N, LINES_LIMIT)
\* lines of the file in order, where lines are those of Python's text mode:
\* a line ends at "\n", "\r" or "\r\n" and its terminator is returned as
\* "\n".  For a file without "\r" this is the file's tail, unchanged.
C1_TailOfTextLines ==
    TailReturned =>
        /\ response.mimetype = "text/plain"
        /\ response.body = join(LastN(TextLines(fileText), LINES_LIMIT))
        /\ CR \notin Range(fileText) =>
                response.body = join(LastN(SplitLines(fileText), LINES_LIMIT))

\* A 5-line file without "\r" read with LINES_LIMIT = 3 (scenario D)
C1_Witness ==
    /\ TailReturned
    /\ LINES_LIMIT = 3
    /\ CR \notin Range(fileText)
    /\ Len(SplitLines(fileText)) = 5
    /\ response.body = join(SubSeq(SplitLines(fileText), 3, 5))

----------------------------------------------------------------------------
(* C9: the buffer during a tail read *)

Reading == fpc \in {"iter", "appended"}

\* C9 as stated: at every point of the read, also between the append and
\* the trim, lines holds at most LINES_LIMIT lines, the most recent ones.
C9_BufferAtMostLimit ==
    Reading =>
        /\ Len(lines) <= LINES_LIMIT
        /\ lines = LastN(TextLines(Consumed), Len(lines))

\* C9 amended: lines holds the most recently read lines, at most LINES_LIMIT
\* of them each time the loop is about to read a line, and at most
\* LINES_LIMIT + 1 between the append and the trim.
C9_BufferAtMostLimitPlusOne ==
    Reading =>
        /\ lines = LastN(TextLines(Consumed), Len(lines))
        /\ Len(lines) = Min(Len(TextLines(Consumed)),
                            IF fpc = "appended" THEN LINES_LIMIT + 1 ELSE LINES_LIMIT)

C9_Witness ==
    /\ fpc = "appended"
    /\ Len(lines) = LINES_LIMIT + 1
    /\ lf # <<>>

----------------------------------------------------------------------------
(* C2, C3: a resolved path whose open() fails *)

OpenFailedWith(excs) ==
    /\ IsFetch(request)
    /\ opened # <<>>
    /\ opened[1].result \in excs

----------------------------------------------------------------------------
(* C4: lookup miss *)

\* C4: a fetch whose service or log is empty or absent from the catalog
\* returns 404 from the view, with no file opened and nothing raised; any
\* other fetch resolves to the path the catalog stores for that pair.
C4_MissIs404 ==
    /\ IsFetch(request) =>
        IF Miss(DictOf(request), request.service, request.log)
        THEN /\ IsBare(response, 404)
             /\ opened = <<>>
        ELSE /\ Len(opened) = 1
             /\ opened[1].path =
                    heap[DictOf(request)[request.service]].logs[request.log]
    /\ fpc # "idle" =>
        /\ ~Miss(DictOf(frequest), frequest.service, frequest.log)
        /\ file_path = heap[DictOf(frequest)[frequest.service]].logs[frequest.log]
        /\ \A i \in DOMAIN opened : opened[i].path = file_path

\* Scenario B
C4_Witness ==
    /\ request = [route |-> "bento_service_log", service |-> "unknown-service",
                  log |-> "out.log"]
    /\ "web" \in DOMAIN SERVICE_LOGS_DICT
    /\ response.status = 404
    /\ opened = <<>>

----------------------------------------------------------------------------
(* C5: disabled services *)

\* C5 as stated: describing the artifact of any disabled descriptor on the
\* service catalog gives NotFound; the catalog holds one entry per
\* non-disabled descriptor and none for a disabled one.
C5_DisabledNotFound ==
    /\ (request.route = "bento_service" /\ request.service \in DisabledArtifacts) =>
            response.status = 404
    /\ Services(SERVICE_LOGS) = EnabledArtifacts

\* C5 amended: describing the artifact of a disabled descriptor gives
\* NotFound unless a non-disabled descriptor has the same artifact; the
\* catalog holds one entry per non-disabled descriptor, in input order, and
\* none for a disabled one.
C5_DisabledNotFoundUnlessEnabledTwin ==
    /\ ( /\ request.route = "bento_service"
         /\ request.service \in DisabledArtifacts
         /\ request.service \notin Range(EnabledArtifacts) ) =>
            /\ response.status = 404
            /\ response.body.message = <<"Could not find service '", request.service, "'">>
    /\ Services(SERVICE_LOGS) = EnabledArtifacts

\* Scenario E
C5_Witness ==
    /\ request.route = "bento_service"
    /\ request.service = "web"
    /\ "web" \in DisabledArtifacts
    /\ "web" \notin Range(EnabledArtifacts)
    /\ Len(SERVICE_LOGS) = 1
    /\ response.status = 404

----------------------------------------------------------------------------
(* C6: describeOne *)

----------------------------------------------------------------------------
(* C7: the catalogs after startup *)

\* C7: whatever requests have run or are in flight, the catalogs and their
\* mappings are as built at startup, and a listing is the listing of the
\* catalog as built at startup (so any two listings of a catalog agree).
C7_CatalogsUnchanged ==
    /\ heap = startup.heap
    /\ SYSTEM_LOGS = startup.SYSTEM_LOGS
    /\ SYSTEM_LOGS_DICT = startup.SYSTEM_LOGS_DICT
    /\ SERVICE_LOGS = startup.SERVICE_LOGS
    /\ SERVICE_LOGS_DICT = startup.SERVICE_LOGS_DICT
    /\ IsList(request) =>
        /\ response.status = 200
        /\ Len(response.body) = Len(ListOf(request))
        /\ \A i \in DOMAIN response.body :
            /\ response.body[i].service = startup.heap[ListOf(request)[i]].service
            /\ DOMAIN response.body[i].logs = DOMAIN startup.heap[ListOf(request)[i]].logs
            /\ \A l \in DOMAIN response.body[i].logs :
                response.body[i].logs[l] =
                    SERVICE_URL \o <<BasePathOf(request), "/",
                                     response.body[i].service, "/", l>>

\* A listing returned while a fetch is reading its file
C7_Witness ==
    /\ request.route = "bento_logs"
    /\ fpc = "appended"
    /\ Len(response.body) = 2
    /\ DOMAIN response.body[1].logs = {"out.log"}

----------------------------------------------------------------------------
(* C8: unique service ids *)

\* C8 as stated: for every descriptor list no two entries of SERVICE_LOGS
\* have the same service, likewise for SYSTEM_LOGS, and each list has as
\* many entries as its mapping.
C8_ServiceIdsUnique ==
    /\ Unique(Services(SYSTEM_LOGS))
    /\ Len(SYSTEM_LOGS) = Cardinality(DOMAIN SYSTEM_LOGS_DICT)
    /\ Unique(Services(SERVICE_LOGS))
    /\ Len(SERVICE_LOGS) = Cardinality(DOMAIN SERVICE_LOGS_DICT)

\* C8 amended: the system catalog has unique service ids and as many entries
\* as its mapping.  The service catalog has one entry per non-disabled
\* descriptor, so its ids are unique, and its mapping as long as the list,
\* exactly when the non-disabled descriptors have pairwise distinct
\* artifacts; in general the mapping has one key per distinct id.
C8_ServiceIdsUniqueIfArtifactsAre ==
    /\ Unique(Services(SYSTEM_LOGS))
    /\ Len(SYSTEM_LOGS) = Cardinality(DOMAIN SYSTEM_LOGS_DICT)
    /\ Unique(Services(SERVICE_LOGS)) <=> Unique(EnabledArtifacts)
    /\ Unique(EnabledArtifacts) <=>
            Len(SERVICE_LOGS) = Cardinality(DOMAIN SERVICE_LOGS_DICT)
    /\ DOMAIN SERVICE_LOGS_DICT = Range(Services(SERVICE_LOGS))

C8_Witness ==
    /\ Len(SERVICE_LOGS) = 2
    /\ Unique(Services(SERVICE_LOGS))
    /\ Cardinality(DOMAIN SERVICE_LOGS_DICT) = 2

----------------------------------------------------------------------------
(* C10: listing and fetching agree *)

\* Index of the last entry of log_list with the service of entry i
LastWithService(log_list, i) ==
    CHOOSE k \in DOMAIN log_list :
        /\ heap[log_list[k]].service = heap[log_list[i]].service
        /\ \A j \in DOMAIN log_list :
              heap[log_list[j]].service = heap[log_list[i]].service => j <= k

Resolves(req, service, log) == LogBytesLookup(heap, DictOf(req), service, log)

\* Every pair that resolves is in the listing, with its path
ResolvedIsListed ==
    \A service \in ServiceArgs, log \in LogArgs \cup {"error.log"} :
        Resolves(request, service, log).kind = "path" =>
            \E i \in DOMAIN response.body :
                /\ response.body[i].service = service
                /\ log \in DOMAIN response.body[i].logs
                /\ Resolves(request, service, log).value = heap[ListOf(request)[i]].logs[log]

\* C10 as stated: every (service, log) pair of a listing resolves in
\* _log_bytes_endpoint to the path recorded for the listed entry, and every
\* pair that resolves is listed.
C10_ListedResolves ==
    IsList(request) =>
        /\ \A i \in DOMAIN response.body : \A log \in DOMAIN response.body[i].logs :
            /\ Resolves(request, response.body[i].service, log).kind = "path"
            /\ Resolves(request, response.body[i].service, log).value =
                    heap[ListOf(request)[i]].logs[log]
        /\ ResolvedIsListed

\* C10 amended: every pair that resolves is listed, with the path it
\* resolves to.  A listed pair resolves exactly when its service id is not
\* empty and its log name is also a log of the last catalog entry with that
\* service id, and then to the path recorded for the listed entry; this is
\* every listed pair when the non-disabled artifacts are non-empty and
\* pairwise distinct, and always in the system catalog.
C10_ListedResolvesViaLastEntry ==
    IsList(request) =>
        /\ \A i \in DOMAIN response.body : \A log \in DOMAIN response.body[i].logs :
            LET r == Resolves(request, response.body[i].service, log)
                last == heap[ListOf(request)[LastWithService(ListOf(request), i)]]
            IN  IF response.body[i].service # "" /\ log \in DOMAIN last.logs
                THEN /\ r.kind = "path"
                     /\ r.value = heap[ListOf(request)[i]].logs[log]
                ELSE r.kind = "return" /\ r.value.status = 404
        /\ ( /\ Unique(Services(ListOf(request)))
             /\ "" \notin Range(Services(ListOf(request))) ) =>
            \A i \in DOMAIN response.body : \A log \in DOMAIN response.body[i].logs :
                Resolves(request, response.body[i].service, log).kind = "path"
        /\ ResolvedIsListed

\* A service listed twice, its log present in both entries
C10_Witness ==
    /\ request.route = "bento_logs"
    /\ Len(response.body) = 2
    /\ response.body[1].service = "web"
    /\ response.body[2].service = "web"
    /\ DOMAIN response.body[1].logs = {"out.log"}
    /\ DOMAIN response.body[2].logs = {"out.log"}
    /\ Resolves(request, "web", "out.log").kind = "path"

====
